---- MODULE Spec2Model ----
(***************************************************************************)
(* Model of the sync backend in rust-sqlite-api/src/main.rs: one SQLite    *)
(* connection behind a Mutex, the append-only sync_history table, the      *)
(* materialized model_data table, and the three Database methods           *)
(* apply_transactions (ingest), get_transactions (fetchRange) and          *)
(* get_bootstrap_data (bootstrap), called concurrently by several callers. *)
(***************************************************************************)
EXTENDS Integers, Sequences, FiniteSets, TLC

(* ------------------------------ bounds --------------------------------- *)
\* number of concurrent callers (actix workers sharing web::Data<Database>)
NumCallers == 2
\* cap on the number of rows sync_history may hold
MaxLog == 2
\* longest batch a caller submits
MaxBatchLen == 2
\* cap on the transactions the log holds, over all its batches
MaxTx == 2
\* last value of the wall clock (Utc::now().timestamp())
MaxClock == 1

(* --------------------------- program constants ------------------------- *)
\* i64::MAX, the default of the "to" query parameter.  The model checker's
\* integers are 32 bits wide, so the model uses the largest of those; the
\* value is only ever compared with rowids ("id <= ?2"), all far below it.
I64Max == 2147483647

Callers == 1..NumCallers
NoCaller == 0

RecordIds == {"a", "b"}

\* struct Transaction
Tx(t, id, act, d) == [model_type |-> t, id |-> id, action |-> act, data |-> d]

\* the transactions callers submit: upserts of "a" under two types and with
\* two payloads, its delete, a second id, and one unrecognised action
TxPool ==
  { Tx("Todo", "a", "create", "t1"),
    Tx("Todo", "a", "update", "t2"),
    Tx("Note", "a", "update", "t1"),
    Tx("Todo", "a", "delete", "{}"),
    Tx("Todo", "b", "create", "t1"),
    Tx("Todo", "b", "patch", "{}") }

RECURSIVE SeqsUpTo(_, _)
SeqsUpTo(S, n) ==
  IF n = 0 THEN {<<>>}
  ELSE LET shorter == SeqsUpTo(S, n - 1)
       IN  shorter \cup {Append(s, x) : s \in {q \in shorter : Len(q) = n - 1}, x \in S}

\* Vec<Transaction> bodies of POST /api/transactions
Batches == SeqsUpTo(TxPool, MaxBatchLen)

\* the bodies submitted when several callers run at once: one record, its
\* upsert, a second upsert with another payload, its delete, and an
\* unrecognised action
CorePool ==
  { Tx("Todo", "a", "create", "t1"),
    Tx("Todo", "a", "update", "t2"),
    Tx("Todo", "a", "delete", "{}"),
    Tx("Todo", "b", "patch", "{}") }

CoreBatches == SeqsUpTo(CorePool, MaxBatchLen)

\* bounds a handler passes on when the query has none (lines 199-200)
DefaultFrom == 0
DefaultTo == I64Max

\* from / to of GET /api/transactions
Froms == 0..MaxLog
Tos == (1..MaxLog) \cup {I64Max}

(* ------------------------- serialization boundary ---------------------- *)
\* serde_json::to_string(&Value): the JSON text of a payload
ValueToJson(v) == <<"json", v>>
\* serde_json::from_str::<Value>
ValueFromJson(s) == s[2]

\* Serialize for Transaction: field model_type is renamed "type"
TxToJson(t) == [type |-> t.model_type, id |-> t.id, action |-> t.action,
                data |-> ValueToJson(t.data)]
\* variant: the "type" key is not mapped back to model_type
TxFromJson_norename(o) == [model_type |-> "", id |-> o.id, action |-> o.action,
                           data |-> ValueFromJson(o.data)]

\* Deserialize for Transaction
TxFromJson(o) == [model_type |-> o.type, id |-> o.id, action |-> o.action,
                  data |-> ValueFromJson(o.data)]

\* serde_json::to_string(&transactions): a JSON array
BatchToJson(b) == <<"json", [k \in 1..Len(b) |-> TxToJson(b[k])]>>
\* serde_json::from_str::<Vec<Transaction>>
BatchFromJson(s) == [k \in 1..Len(s[2]) |-> TxFromJson(s[2][k])]

(* ------------------------------- state --------------------------------- *)
VARIABLES
  sync_history,     \* table sync_history: set of rows [id, actions]
  sqlite_sequence,  \* AUTOINCREMENT high-water mark of sync_history
  model_data,       \* table model_data: set of rows keyed by id
  journal,          \* rollback journal of the open transaction, or NoTx
  mutex,            \* Database.conn: the caller holding the Mutex, or NoCaller
  pc,               \* per caller: position in the method it runs
  op,               \* per caller: the method it runs
  arg,              \* per caller: the method's arguments
  loc,              \* per caller: locals sync_id and loop index
  now,              \* wall clock
  resp,             \* history: the Result last returned, until the next call
  pre,              \* history: the tables when the running ingest took the lock
  ingested,         \* history: [pos, batch] of every Ok ingest, in return order
  floor             \* history: per caller, highest position returned before its call

vars == <<sync_history, sqlite_sequence, model_data, journal, mutex,
          pc, op, arg, loc, now, resp, pre, ingested, floor>>

NoTx == [active |-> FALSE]
NoArg == [kind |-> "none"]
NoLoc == [sync_id |-> 0, i |-> 0]
EmptyModels == [m \in {} |-> {}]
NoResp == [op |-> "none", arg |-> NoArg, ok |-> FALSE,
           err |-> <<>>, sync_id |-> 0, transactions |-> <<>>,
           models |-> EmptyModels, floor |-> 0, at |-> 0, stage |-> "idle"]

\* the three tables as one value
Tables == [sync_history |-> sync_history, sqlite_sequence |-> sqlite_sequence,
           model_data |-> model_data]

Max(S) == IF S = {} THEN 0 ELSE CHOOSE x \in S : \A y \in S : y <= x

\* Database::new: both tables created empty, no transaction open
Init ==
  /\ sync_history = {}
  /\ sqlite_sequence = 0
  /\ model_data = {}
  /\ journal = NoTx
  /\ mutex = NoCaller
  /\ pc = [p \in Callers |-> "idle"]
  /\ op = [p \in Callers |-> "none"]
  /\ arg = [p \in Callers |-> NoArg]
  /\ loc = [p \in Callers |-> NoLoc]
  /\ now = 0
  /\ resp = NoResp
  /\ pre = NoTx
  /\ ingested = <<>>
  /\ floor = [p \in Callers |-> 0]

(* ------------------------------ SQL helpers ---------------------------- *)
\* SELECT COALESCE(MAX(id), 0) FROM sync_history
MaxPosition(h) == Max({r.id : r \in h})

\* variant: the rowid is the high-water mark itself
NextRowid_stuck(h, seq) == Max({seq, MaxPosition(h)})

\* rowid that INSERT INTO sync_history assigns under AUTOINCREMENT: one above
\* the largest rowid the table has ever held
NextRowid(h, seq) == Max({seq, MaxPosition(h)}) + 1

\* variant: INSERT OR IGNORE, the row already there stays
InsertOrReplace_ignore(md, row) ==
  IF \E r \in md : r.id = row.id THEN md ELSE md \cup {row}

\* variant: the row already there is not removed
InsertOrReplace_append(md, row) == md \cup {row}

\* variant: the primary key is (id, model_name)
InsertOrReplace_typed(md, row) ==
  {r \in md : ~(r.id = row.id /\ r.model_name = row.model_name)} \cup {row}

\* INSERT OR REPLACE INTO model_data: the row with the same primary key is
\* removed, the new row is inserted
InsertOrReplace(md, row) == {r \in md : r.id # row.id} \cup {row}

\* variant: DELETE ... WHERE id != ?1
DeleteFrom_other(md, id) == {r \in md : r.id = id}

\* DELETE FROM model_data WHERE id = ?1
DeleteFrom(md, id) == {r \in md : r.id # id}

\* variant: the rows come back highest rowid first
RECURSIVE RowsInRange_desc(_, _, _)
RowsInRange_desc(h, from, to) ==
  LET sel == {r \in h : r.id >= from /\ r.id <= to}
  IN  IF sel = {} THEN <<>>
      ELSE LET first == CHOOSE r \in sel : \A q \in sel : r.id >= q.id
           IN  <<first>> \o RowsInRange_desc(h \ {first}, from, to)

\* rows of sync_history with from <= id <= to, in the rowid order of the scan
RECURSIVE RowsInRange(_, _, _)
RowsInRange(h, from, to) ==
  LET sel == {r \in h : r.id >= from /\ r.id <= to}
  IN  IF sel = {} THEN <<>>
      ELSE LET first == CHOOSE r \in sel : \A q \in sel : r.id <= q.id
           IN  <<first>> \o RowsInRange(h \ {first}, from, to)

\* variant: max_sync_id counts the rows visited
RECURSIVE FoldRows_count(_, _, _)
FoldRows_count(rows, max_sync_id, transactions) ==
  IF rows = <<>> THEN [sync_id |-> max_sync_id, transactions |-> transactions]
  ELSE FoldRows_count(Tail(rows), max_sync_id + 1,
                      transactions \o BatchFromJson(Head(rows).actions))

\* the loop of get_transactions over the rows (lines 128-142)
RECURSIVE FoldRows(_, _, _)
FoldRows(rows, max_sync_id, transactions) ==
  IF rows = <<>> THEN [sync_id |-> max_sync_id, transactions |-> transactions]
  ELSE FoldRows(Tail(rows), Head(rows).id,
                transactions \o BatchFromJson(Head(rows).actions))

\* Database::get_transactions, Ok value
GetTransactions(h, from, to) == FoldRows(RowsInRange(h, from, to), 0, <<>>)

\* the loop of get_bootstrap_data over the rows of model_data (lines 170-179);
\* the order inside each Vec is the scan order, which the model leaves out
GroupModels(md) ==
  [m \in {r.model_name : r \in md} |->
     {[id |-> r.id, data |-> ValueFromJson(r.data)] : r \in {q \in md : q.model_name = m}}]

(* ------------------------------- calls --------------------------------- *)
\* positions returned by Ok ingests so far
Returned == {ingested[k].pos : k \in 1..Len(ingested)}

RECURSIVE TotalLen(_)
TotalLen(s) == IF s = <<>> THEN 0 ELSE Len(Head(s).batch) + TotalLen(Tail(s))

\* the actions the match of apply_transactions knows (lines 92, 106)
ValidActions == {"create", "update", "delete"}

HasInvalid(b) == \E k \in 1..Len(b) : b[k].action \notin ValidActions

\* a handler is invoked: post_transactions, get_transactions or get_bootstrap
Call(p) ==
  /\ pc[p] = "idle"
  /\ pc' = [pc EXCEPT ![p] = "lock"]
  /\ \E o \in {"ingest", "fetch", "bootstrap"} : op' = [op EXCEPT ![p] = o]
  /\ floor' = [floor EXCEPT ![p] = Max(Returned)]
  /\ resp' = NoResp
  /\ UNCHANGED <<sync_history, sqlite_sequence, model_data, journal, mutex,
                 arg, loc, now, pre, ingested>>

\* variant: the connection is taken without waiting for the Mutex
Lock_unguarded(p, a) ==
  /\ pc[p] = "lock"
  /\ mutex' = p
  /\ arg' = [arg EXCEPT ![p] = a]
  /\ pc' = [pc EXCEPT ![p] = IF op[p] = "ingest" THEN "begin"
                             ELSE IF op[p] = "fetch" THEN "select" ELSE "max"]
  /\ pre' = IF op[p] = "ingest" THEN [active |-> TRUE, saved |-> Tables] ELSE pre
  /\ UNCHANGED <<sync_history, sqlite_sequence, model_data, journal,
                 op, loc, now, resp, ingested, floor>>

\* variant: only apply_transactions waits for the Mutex, the two reading
\* methods take the connection as it is
Lock_readers(p, a) ==
  /\ pc[p] = "lock"
  /\ mutex = NoCaller \/ op[p] # "ingest"
  /\ mutex' = p
  /\ arg' = [arg EXCEPT ![p] = a]
  /\ pc' = [pc EXCEPT ![p] = IF op[p] = "ingest" THEN "begin"
                             ELSE IF op[p] = "fetch" THEN "select" ELSE "max"]
  /\ pre' = IF op[p] = "ingest" THEN [active |-> TRUE, saved |-> Tables] ELSE pre
  /\ UNCHANGED <<sync_history, sqlite_sequence, model_data, journal,
                 op, loc, now, resp, ingested, floor>>

\* self.conn.lock().unwrap()
Lock(p, a) ==
  /\ pc[p] = "lock"
  /\ mutex = NoCaller
  /\ mutex' = p
  /\ arg' = [arg EXCEPT ![p] = a]
  /\ pc' = [pc EXCEPT ![p] = IF op[p] = "ingest" THEN "begin"
                             ELSE IF op[p] = "fetch" THEN "select" ELSE "max"]
  /\ pre' = IF op[p] = "ingest" THEN [active |-> TRUE, saved |-> Tables] ELSE pre
  /\ UNCHANGED <<sync_history, sqlite_sequence, model_data, journal,
                 op, loc, now, resp, ingested, floor>>

\* apply_transactions(transactions) reaches its first line.  The arguments
\* are immutable inputs of the call; the model binds them here, where the
\* method starts to use them.  A body is only submitted while the log has
\* room for it; a body with an unknown action never gets into the log.
LockIngest(p, bodies) ==
  /\ pc[p] = "lock"
  /\ op[p] = "ingest"
  /\ Len(ingested) < MaxLog
  /\ \E b \in bodies :
       /\ HasInvalid(b) \/ TotalLen(ingested) + Len(b) <= MaxTx
       /\ Lock(p, [kind |-> "batch", batch |-> b])

\* apply_transactions(transactions) reaches its first line while the log is
\* at its cap: the bodies still submitted are those with an unknown action,
\* which never get into the log
LockIngestFull(p, bodies) ==
  /\ pc[p] = "lock"
  /\ op[p] = "ingest"
  /\ Len(ingested) >= MaxLog
  /\ \E b \in bodies :
       /\ HasInvalid(b)
       /\ Lock(p, [kind |-> "batch", batch |-> b])

\* get_transactions(from, to) reaches its first line
LockFetch(p, froms, tos) ==
  /\ pc[p] = "lock"
  /\ op[p] = "fetch"
  /\ \E from \in froms, to \in tos :
       Lock(p, [kind |-> "range", from |-> from, to |-> to])

\* get_bootstrap_data() reaches its first line
LockBootstrap(p) ==
  /\ op[p] = "bootstrap"
  /\ Lock(p, NoArg)

\* the wall clock advances
Tick ==
  /\ now < MaxClock
  /\ now' = now + 1
  /\ UNCHANGED <<sync_history, sqlite_sequence, model_data, journal, mutex,
                 pc, op, arg, loc, resp, pre, ingested, floor>>

(* ------------------------------ returning ------------------------------ *)
\* rusqlite::Error::InvalidParameterName(format!("Invalid action: {}", ..))
InvalidAction(a) == <<"Invalid action: ", a>>
\* any error of the SQLite layer
SqliteFailure == <<"SqliteFailure">>

\* what the caller gets back, with the query parameters of a fetch, the
\* statement the method returned from and, for an ingest, the loop index it
\* stopped at
Response(p, ok, err, sync_id, transactions, models) ==
  [op |-> op[p],
   arg |-> IF op[p] = "fetch" THEN arg[p] ELSE NoArg, ok |-> ok, err |-> err,
   sync_id |-> sync_id, transactions |-> transactions, models |-> models,
   floor |-> floor[p], at |-> loc[p].i, stage |-> pc[p]]

\* the method returns: its locals and the MutexGuard are dropped
Return(p, r) ==
  /\ resp' = r
  /\ mutex' = NoCaller
  /\ pc' = [pc EXCEPT ![p] = "idle"]
  /\ op' = [op EXCEPT ![p] = "none"]
  /\ arg' = [arg EXCEPT ![p] = NoArg]
  /\ loc' = [loc EXCEPT ![p] = NoLoc]
  /\ floor' = [floor EXCEPT ![p] = 0]

\* variant: dropping the transaction leaves its writes in place
RolledBack_none(j, cur) == cur

\* variant: the rollback does not take back the AUTOINCREMENT mark
RolledBack_keepseq(j, cur) ==
  IF j.active THEN [j.saved EXCEPT !.sqlite_sequence = cur.sqlite_sequence] ELSE cur

\* Drop for rusqlite::Transaction (DropBehavior::Rollback): the tables go back
\* to the journal's copy; nothing to do when no transaction is open
RolledBack(j, cur) == IF j.active THEN j.saved ELSE cur

\* variant: the early return leaves the Mutex locked
Abort_locked(p, e) ==
  /\ sync_history' = RolledBack(journal, Tables).sync_history
  /\ sqlite_sequence' = RolledBack(journal, Tables).sqlite_sequence
  /\ model_data' = RolledBack(journal, Tables).model_data
  /\ journal' = NoTx
  /\ resp' = Response(p, FALSE, e, 0, <<>>, EmptyModels)
  /\ pc' = [pc EXCEPT ![p] = "idle"]
  /\ op' = [op EXCEPT ![p] = "none"]
  /\ arg' = [arg EXCEPT ![p] = NoArg]
  /\ loc' = [loc EXCEPT ![p] = NoLoc]
  /\ floor' = [floor EXCEPT ![p] = 0]
  /\ pre' = IF op[p] = "ingest" THEN NoTx ELSE pre
  /\ UNCHANGED <<mutex, now, ingested>>

\* an early return with Err: tx (if open) is dropped, then the MutexGuard
Abort(p, e) ==
  /\ sync_history' = RolledBack(journal, Tables).sync_history
  /\ sqlite_sequence' = RolledBack(journal, Tables).sqlite_sequence
  /\ model_data' = RolledBack(journal, Tables).model_data
  /\ journal' = NoTx
  /\ Return(p, Response(p, FALSE, e, 0, <<>>, EmptyModels))
  /\ pre' = IF op[p] = "ingest" THEN NoTx ELSE pre
  /\ UNCHANGED <<now, ingested>>

(* -------------------- Database::apply_transactions --------------------- *)
Batch(p) == arg[p].batch

\* let tx = conn.transaction()?;   (line 76)
Begin(p) ==
  /\ pc[p] = "begin"
  /\ journal' = [active |-> TRUE, saved |-> Tables]
  /\ pc' = [pc EXCEPT ![p] = "insert"]
  /\ UNCHANGED <<sync_history, sqlite_sequence, model_data, mutex,
                 op, arg, loc, now, resp, pre, ingested, floor>>

BeginFail(p) ==
  /\ pc[p] = "begin"
  /\ Abort(p, SqliteFailure)

\* variant: an empty batch is not logged; last_insert_rowid() then yields the
\* rowid of the insert before it
Insert_skipempty(p) ==
  /\ pc[p] = "insert"
  /\ LET rowid == NextRowid(sync_history, sqlite_sequence)
     IN  IF Len(Batch(p)) = 0
         THEN /\ UNCHANGED <<sync_history, sqlite_sequence>>
              /\ loc' = [loc EXCEPT ![p] = [sync_id |-> sqlite_sequence, i |-> 1]]
         ELSE /\ sync_history' = sync_history \cup
                                   {[id |-> rowid, actions |-> BatchToJson(Batch(p))]}
              /\ sqlite_sequence' = rowid
              /\ loc' = [loc EXCEPT ![p] = [sync_id |-> rowid, i |-> 1]]
  /\ pc' = [pc EXCEPT ![p] = IF Len(Batch(p)) = 0 THEN "commit" ELSE "loop"]
  /\ UNCHANGED <<model_data, journal, mutex, op, arg, now, resp, pre,
                 ingested, floor>>

\* INSERT INTO sync_history (actions) VALUES (?1); last_insert_rowid()
\* (lines 79-85)
Insert(p) ==
  /\ pc[p] = "insert"
  /\ LET rowid == NextRowid(sync_history, sqlite_sequence)
     IN  /\ sync_history' = sync_history \cup
                              {[id |-> rowid, actions |-> BatchToJson(Batch(p))]}
         /\ sqlite_sequence' = rowid
         /\ loc' = [loc EXCEPT ![p] = [sync_id |-> rowid, i |-> 1]]
  /\ pc' = [pc EXCEPT ![p] = IF Len(Batch(p)) = 0 THEN "commit" ELSE "loop"]
  /\ UNCHANGED <<model_data, journal, mutex, op, arg, now, resp, pre,
                 ingested, floor>>

InsertFail(p) ==
  /\ pc[p] = "insert"
  /\ Abort(p, SqliteFailure)

\* the transaction the for loop is at
Current(p) == Batch(p)[loc[p].i]

\* the loop moves to its next element, or ends
Advance(p) ==
  /\ loc' = [loc EXCEPT ![p].i = @ + 1]
  /\ pc' = [pc EXCEPT ![p] = IF loc[p].i = Len(Batch(p)) THEN "commit" ELSE "loop"]

\* variant: a row that is replaced keeps the updated_at it had
Upsert_stale(p) ==
  /\ pc[p] = "loop"
  /\ Current(p).action \in {"create", "update"}
  /\ LET had == {r \in model_data : r.id = Current(p).id}
     IN  model_data' = InsertOrReplace(model_data,
           [id |-> Current(p).id, model_name |-> Current(p).model_type,
            data |-> ValueToJson(Current(p).data),
            created_at |-> now,
            updated_at |-> IF had = {} THEN now ELSE (CHOOSE r \in had : TRUE).updated_at])
  /\ Advance(p)
  /\ UNCHANGED <<sync_history, sqlite_sequence, journal, mutex, op, arg,
                 now, resp, pre, ingested, floor>>

\* "create" | "update" arm (lines 92-105)
Upsert(p) ==
  /\ pc[p] = "loop"
  /\ Current(p).action \in {"create", "update"}
  /\ model_data' = InsertOrReplace(model_data,
        [id |-> Current(p).id, model_name |-> Current(p).model_type,
         data |-> ValueToJson(Current(p).data),
         created_at |-> now, updated_at |-> now])
  /\ Advance(p)
  /\ UNCHANGED <<sync_history, sqlite_sequence, journal, mutex, op, arg,
                 now, resp, pre, ingested, floor>>

\* variant: a DELETE that removes no row is reported as an error
Delete_strict(p) ==
  /\ pc[p] = "loop"
  /\ Current(p).action = "delete"
  /\ IF \E r \in model_data : r.id = Current(p).id
     THEN /\ model_data' = DeleteFrom(model_data, Current(p).id)
          /\ Advance(p)
          /\ UNCHANGED <<sync_history, sqlite_sequence, journal, mutex, op, arg,
                         now, resp, pre, ingested, floor>>
     ELSE Abort(p, <<"QueryReturnedNoRows">>)

\* "delete" arm (lines 106-111)
Delete(p) ==
  /\ pc[p] = "loop"
  /\ Current(p).action = "delete"
  /\ model_data' = DeleteFrom(model_data, Current(p).id)
  /\ Advance(p)
  /\ UNCHANGED <<sync_history, sqlite_sequence, journal, mutex, op, arg,
                 now, resp, pre, ingested, floor>>

\* variant: the statements run outside a transaction, so a failed one leaves
\* the log row and the earlier replays in place
ReplayFail_autocommit(p) ==
  /\ pc[p] = "loop"
  /\ Current(p).action \in {"create", "update", "delete"}
  /\ journal' = NoTx
  /\ Return(p, Response(p, FALSE, SqliteFailure, 0, <<>>, EmptyModels))
  /\ pre' = NoTx
  /\ UNCHANGED <<sync_history, sqlite_sequence, model_data, now, ingested>>

\* variant: the log row is committed on its own before the replays, so a
\* failed replay takes back the replays only and the position is returned
ReplayFail_logged(p) ==
  /\ pc[p] = "loop"
  /\ Current(p).action \in {"create", "update", "delete"}
  /\ model_data' = RolledBack(journal, Tables).model_data
  /\ journal' = NoTx
  /\ Return(p, Response(p, TRUE, <<>>, loc[p].sync_id, <<>>, EmptyModels))
  /\ ingested' = Append(ingested, [pos |-> loc[p].sync_id, batch |-> Batch(p)])
  /\ pre' = NoTx
  /\ UNCHANGED <<sync_history, sqlite_sequence, now>>

\* tx.execute(..)? of either arm fails
ReplayFail(p) ==
  /\ pc[p] = "loop"
  /\ Current(p).action \in {"create", "update", "delete"}
  /\ Abort(p, SqliteFailure)

\* the _ arm (lines 112-114)
Invalid(p) ==
  /\ pc[p] = "loop"
  /\ Current(p).action \notin {"create", "update", "delete"}
  /\ Abort(p, InvalidAction(Current(p).action))

\* tx.commit()?; Ok(sync_id)   (lines 118-119)
Commit(p) ==
  /\ pc[p] = "commit"
  /\ journal' = NoTx
  /\ Return(p, Response(p, TRUE, <<>>, loc[p].sync_id, <<>>, EmptyModels))
  /\ ingested' = Append(ingested, [pos |-> loc[p].sync_id, batch |-> Batch(p)])
  /\ pre' = NoTx
  /\ UNCHANGED <<sync_history, sqlite_sequence, model_data, now>>

CommitFail(p) ==
  /\ pc[p] = "commit"
  /\ Abort(p, SqliteFailure)

(* ---------------------- Database::get_transactions --------------------- *)
\* variant: the rows handed out are removed from the log
Select_consume(p) ==
  /\ pc[p] = "select"
  /\ LET r == GetTransactions(sync_history, arg[p].from, arg[p].to)
     IN  Return(p, Response(p, TRUE, <<>>, r.sync_id, r.transactions, EmptyModels))
  /\ sync_history' = {r \in sync_history : r.id < arg[p].from \/ r.id > arg[p].to}
  /\ UNCHANGED <<sqlite_sequence, model_data, journal, now, pre, ingested>>

\* prepare, query_map and the loop over the rows (lines 124-144)
Select(p) ==
  /\ pc[p] = "select"
  /\ LET r == GetTransactions(sync_history, arg[p].from, arg[p].to)
     IN  Return(p, Response(p, TRUE, <<>>, r.sync_id, r.transactions, EmptyModels))
  /\ UNCHANGED <<sync_history, sqlite_sequence, model_data, journal,
                 now, pre, ingested>>

SelectFail(p) ==
  /\ pc[p] = "select"
  /\ Abort(p, SqliteFailure)

(* --------------------- Database::get_bootstrap_data -------------------- *)
\* SELECT COALESCE(MAX(id), 0) FROM sync_history   (lines 151-155)
QueryMax(p) ==
  /\ pc[p] = "max"
  /\ loc' = [loc EXCEPT ![p].sync_id = MaxPosition(sync_history)]
  /\ pc' = [pc EXCEPT ![p] = "scan"]
  /\ UNCHANGED <<sync_history, sqlite_sequence, model_data, journal, mutex,
                 op, arg, now, resp, pre, ingested, floor>>

QueryMaxFail(p) ==
  /\ pc[p] = "max"
  /\ Abort(p, SqliteFailure)

\* SELECT id, model_name, data FROM model_data and the grouping loop
\* (lines 158-181)
Scan(p) ==
  /\ pc[p] = "scan"
  /\ Return(p, Response(p, TRUE, <<>>, loc[p].sync_id, <<>>, GroupModels(model_data)))
  /\ UNCHANGED <<sync_history, sqlite_sequence, model_data, journal,
                 now, pre, ingested>>

ScanFail(p) ==
  /\ pc[p] = "scan"
  /\ Abort(p, SqliteFailure)

(* --------------------------- specification ----------------------------- *)
\* the steps of caller p, its ingests drawing their bodies from bodies and
\* its fetches their bounds from froms and tos
Step(p, bodies, froms, tos) ==
  \/ Call(p)
  \/ LockIngest(p, bodies)
  \/ LockFetch(p, froms, tos)
  \/ LockBootstrap(p)
  \/ Begin(p)
  \/ BeginFail(p)
  \/ Insert(p)
  \/ InsertFail(p)
  \/ Upsert(p)
  \/ Delete(p)
  \/ ReplayFail(p)
  \/ Invalid(p)
  \/ Commit(p)
  \/ CommitFail(p)
  \/ Select(p)
  \/ SelectFail(p)
  \/ QueryMax(p)
  \/ QueryMaxFail(p)
  \/ Scan(p)
  \/ ScanFail(p)

\* several callers at once, their fetches without query parameters.  The
\* clock stands still: its value only flows into created_at and updated_at,
\* which no method reads.
Next == \E p \in Callers : Step(p, CoreBatches, {DefaultFrom}, {DefaultTo})

Spec == Init /\ [][Next]_vars

\* one caller, one call after the other, with the full range of bodies
NextData == Step(1, Batches, Froms, Tos)

SpecData == Init /\ [][NextData]_vars

\* one caller, with the clock running
NextClock == Step(1, Batches, Froms, Tos) \/ Tick

SpecClock == Init /\ [][NextClock]_vars

\* the bodies submitted under the fair scheduler: an upsert, a delete, and a
\* batch that is rejected at its second transaction
FairBatches ==
  { <<Tx("Todo", "a", "create", "t1")>>,
    <<Tx("Todo", "a", "delete", "{}")>>,
    <<Tx("Todo", "a", "create", "t1"), Tx("Todo", "b", "patch", "{}")>> }

\* caller p gets the Mutex
Acquire(p) ==
  \/ LockIngest(p, FairBatches)
  \/ LockIngestFull(p, FairBatches)
  \/ LockFetch(p, {DefaultFrom}, {DefaultTo})
  \/ LockBootstrap(p)

\* caller p, holding the Mutex, runs the next statement of its method
Run(p) ==
  \/ Begin(p) \/ BeginFail(p)
  \/ Insert(p) \/ InsertFail(p)
  \/ Upsert(p) \/ Delete(p) \/ ReplayFail(p) \/ Invalid(p)
  \/ Commit(p) \/ CommitFail(p)
  \/ Select(p) \/ SelectFail(p)
  \/ QueryMax(p) \/ QueryMaxFail(p)
  \/ Scan(p) \/ ScanFail(p)

\* several callers at once, under a fair scheduler: a thread that holds the
\* Mutex keeps running its method (no statement waits for anything but the
\* storage layer), and a thread waiting for the Mutex gets it if it is free
\* again and again.  Nothing obliges a caller to call.
NextFair ==
  \E p \in Callers :
    \/ Step(p, FairBatches, {DefaultFrom}, {DefaultTo})
    \/ LockIngestFull(p, FairBatches)

SpecFair ==
  /\ Init /\ [][NextFair]_vars
  /\ \A p \in Callers : WF_vars(Run(p)) /\ SF_vars(Acquire(p))

(* ------------------------- what the claims speak of -------------------- *)
\* no transaction is open: the tables hold committed data only
Committed == ~journal.active

\* the step in which caller p's apply_transactions returns
IngestEnds(p) == op[p] = "ingest" /\ pc[p] \notin {"idle", "lock"} /\ pc'[p] = "idle"

\* the batches of the Ok ingests, one after the other
RECURSIVE Flatten(_)
Flatten(s) == IF s = <<>> THEN <<>> ELSE Head(s).batch \o Flatten(Tail(s))

\* a store as the set of its (entity_type, record_id, payload)
StoreView(md) == {<<r.model_name, r.id, ValueFromJson(r.data)>> : r \in md}
ModelsView(models) ==
  UNION {{<<m, e.id, e.data>> : e \in models[m]} : m \in DOMAIN models}

\* replay of one transaction: create/update is an upsert, delete a removal
ReplayTx(view, t) ==
  LET others == {e \in view : e[2] # t.id}
  IN  IF t.action = "delete" THEN others
      ELSE others \cup {<<t.model_type, t.id, t.data>>}

RECURSIVE ReplayFrom(_, _)
ReplayFrom(view, txs) ==
  IF txs = <<>> THEN view ELSE ReplayFrom(ReplayTx(view, Head(txs)), Tail(txs))

\* the transactions of the log entries at positions from..to, in order
LogTxs(from, to) == GetTransactions(sync_history, from, to).transactions

\* the places in txs of the transactions for record id x, and the last of them
TouchesOf(txs, x) == {k \in 1..Len(txs) : txs[k].id = x}
LastFor(txs, x) == txs[Max(TouchesOf(txs, x))]

\* bootstrap().models of the current tables
Models == GroupModels(model_data)

\* the entries <<entity_type, {id, data}>> that models lists for record id x
EntriesOf(models, x) ==
  UNION {{<<m, e>> : e \in {f \in models[m] : f.id = x}} : m \in DOMAIN models}

(* ------------------------------- claims -------------------------------- *)

\* C1 Atomic rejection: when an ingest whose batch holds an action other than
\* create, update or delete (at any index) returns, it returns an error and
\* maxPosition and listAll are what they were when the call took the lock.
C1_AtomicRejection ==
  [][\A p \in Callers :
       (IngestEnds(p) /\ HasInvalid(Batch(p))) =>
          /\ ~resp'.ok
          /\ MaxPosition(sync_history') = MaxPosition(pre.saved.sync_history)
          /\ GroupModels(model_data') = GroupModels(pre.saved.model_data)]_vars

\* an ingest was rejected at its second transaction, after its first one had
\* been replayed, on a log and a store that are not empty
C1_Witness ==
  /\ resp.op = "ingest" /\ resp.err = InvalidAction("patch") /\ resp.at = 2
  /\ Len(ingested) >= 1 /\ model_data # {}

\* C2 Batch atomicity: whatever way an ingest ends (Ok, invalid action,
\* storage failure at the append, at a replay step or at commit), either the
\* log gained exactly the batch's entry and the store is the old store with
\* every transaction of the batch replayed, or log and store are as before;
\* and a reader only ever runs on tables with no transaction open.
C2_BatchAtomicity ==
  [][/\ \A p \in Callers :
          IngestEnds(p) =>
            IF resp'.ok
            THEN /\ sync_history' = pre.saved.sync_history \cup
                      {[id |-> resp'.sync_id, actions |-> BatchToJson(Batch(p))]}
                 /\ StoreView(model_data') =
                      ReplayFrom(StoreView(pre.saved.model_data), Batch(p))
            ELSE /\ sync_history' = pre.saved.sync_history
                 /\ model_data' = pre.saved.model_data
     /\ \A p \in Callers : pc[p] \in {"select", "max", "scan"} => Committed]_vars

\* a storage failure at commit, after both transactions of the batch had been
\* replayed, on a log that already holds an entry
C2_Witness ==
  /\ resp.op = "ingest" /\ resp.err = SqliteFailure /\ resp.at = 3
  /\ Len(ingested) >= 1

\* C3 Position monotonicity: Ok ingests return strictly increasing positions
\* in the order they return (so no two return the same one), and an Ok ingest
\* returns a position above every position returned before it was invoked.
C3_PositionMonotonicity ==
  /\ \A i, j \in 1..Len(ingested) : i < j => ingested[i].pos < ingested[j].pos
  /\ (resp.op = "ingest" /\ resp.ok) => resp.sync_id > resp.floor

\* two ingests ran concurrently: the second to return was invoked before the
\* first had returned
C3_Witness ==
  /\ resp.op = "ingest" /\ resp.ok /\ resp.sync_id = 2 /\ resp.floor = 0

\* C4 Gapless positions: with no transaction open the positions in the log
\* are exactly 1..n, n the number of Ok ingests, and the next position to
\* hand out is n + 1, whatever ingests failed before; the k-th Ok ingest
\* returned k; and an ingest that has appended holds previous maxPosition + 1.
C4_GaplessPositions ==
  /\ Committed => /\ {r.id : r \in sync_history} = 1..Len(ingested)
                  /\ NextRowid(sync_history, sqlite_sequence) = Len(ingested) + 1
  /\ \A k \in 1..Len(ingested) : ingested[k].pos = k
  /\ \A p \in Callers :
       pc[p] \in {"loop", "commit"} =>
          loc[p].sync_id = MaxPosition(pre.saved.sync_history) + 1

\* after an Ok ingest, an ingest that had appended its row and replayed a
\* transaction has failed
C4_Witness ==
  /\ resp.op = "ingest" /\ ~resp.ok /\ resp.at = 2
  /\ Committed /\ Len(ingested) = 1

\* C5 Append-only log: in every state reached after an ingest returned
\* position p for batch B, fetchRange(p, p) yields horizon p and exactly the
\* transactions of B in their order, and a fetch of (p, p) that has run
\* returned just that.
C5_AppendOnlyLog ==
  \A k \in 1..Len(ingested) :
    LET e == ingested[k]
    IN  /\ GetTransactions(sync_history, e.pos, e.pos) =
             [sync_id |-> e.pos, transactions |-> e.batch]
        /\ (resp.op = "fetch" /\ resp.ok /\ resp.arg.from = e.pos
              /\ resp.arg.to = e.pos) =>
             (resp.sync_id = e.pos /\ resp.transactions = e.batch)

\* a fetch of (1, 1) ran after a second ingest and returned a batch
C5_Witness ==
  /\ Len(ingested) = 2
  /\ resp.op = "fetch" /\ resp.ok /\ resp.arg.from = 1 /\ resp.arg.to = 1
  /\ resp.transactions # <<>>

\* C6 Range completeness: with no transaction open, fetchRange(1,
\* maxPosition()) and fetchRange with both bounds unset yield exactly the
\* batches of the Ok ingests, concatenated in position order, and nothing of
\* a rejected batch; a fetch over the whole log that has run returned that.
C6_RangeCompleteness ==
  LET all == Flatten(ingested)
  IN  /\ Committed =>
           /\ LogTxs(1, MaxPosition(sync_history)) = all
           /\ LogTxs(DefaultFrom, DefaultTo) = all
      /\ (resp.op = "fetch" /\ resp.ok /\ resp.arg.from <= 1
            /\ resp.arg.to >= Len(ingested)) =>
           resp.transactions = all

\* a fetch of (1, 2) ran on a log of two batches with a transaction each
C6_Witness ==
  /\ Len(ingested) = 2 /\ Len(ingested[1].batch) = 1 /\ Len(ingested[2].batch) = 1
  /\ resp.op = "fetch" /\ resp.ok /\ resp.arg.from = 1 /\ resp.arg.to = 2

\* C7 Replay determinism: with no transaction open, replaying the whole log
\* in position order into an empty store gives exactly the (entity_type,
\* record_id, payload) that bootstrap().models lists.
C7_ReplayDeterminism ==
  Committed =>
    ModelsView(Models) = ReplayFrom({}, LogTxs(DefaultFrom, DefaultTo))

\* two callers' ingests have both committed, the second one invoked before
\* the first returned, and the store holds a record
C7_Witness ==
  /\ Committed /\ Len(ingested) = 2 /\ model_data # {}
  /\ resp.op = "ingest" /\ resp.ok /\ resp.floor = 0

\* C8 Bootstrap snapshot consistency: the (horizon, models) a bootstrap
\* returned belong to one instant: horizon is the number of batches committed
\* then, and models is the replay of exactly the log entries 1..horizon.
\* Hence, with no transaction open, models of any horizon k followed by the
\* transactions of fetchRange(k+1, unbounded) gives the current store.
C8_BootstrapSnapshot ==
  /\ (resp.op = "bootstrap" /\ resp.ok) =>
       /\ resp.sync_id = Len(ingested)
       /\ ModelsView(resp.models) = ReplayFrom({}, LogTxs(1, resp.sync_id))
  /\ Committed =>
       \A k \in 0..MaxPosition(sync_history) :
         ReplayFrom(ReplayFrom({}, LogTxs(1, k)), LogTxs(k + 1, DefaultTo))
           = ModelsView(Models)

\* a bootstrap returned horizon 1 and a record, and an ingest that was
\* waiting for the lock has since appended position 2
C8_Witness ==
  /\ resp.op = "bootstrap" /\ resp.ok /\ resp.sync_id = 1
  /\ resp.models # EmptyModels
  /\ \E q \in Callers : pc[q] = "commit" /\ loc[q].sync_id = 2

\* C9 Tombstone: with no transaction open, a record id whose last ingested
\* transaction is a delete is listed under no entity type.
C9_Tombstone ==
  Committed =>
    LET txs == Flatten(ingested)
        models == Models
    IN  \A x \in RecordIds :
          (TouchesOf(txs, x) # {} /\ LastFor(txs, x).action = "delete") =>
             EntriesOf(models, x) = {}

\* a create and, in a later batch, the delete of the same id
C9_Witness ==
  /\ Committed /\ Len(ingested) = 2
  /\ Flatten(ingested) = <<Tx("Todo", "a", "create", "t1"),
                           Tx("Todo", "a", "delete", "{}")>>

\* C10 Last-write-wins: with no transaction open, a record id whose last
\* ingested transaction is a create or update is listed exactly once, under
\* that transaction's entity type and with that transaction's payload.
C10_LastWriteWins ==
  Committed =>
    LET txs == Flatten(ingested)
        models == Models
    IN  \A x \in RecordIds :
          (TouchesOf(txs, x) # {} /\ LastFor(txs, x).action \in {"create", "update"}) =>
             EntriesOf(models, x) = {<<LastFor(txs, x).model_type,
                                       [id |-> x, data |-> LastFor(txs, x).data]>>}

\* a create and, in a later batch, an update of the same id with another
\* payload
C10_Witness ==
  /\ Committed /\ Len(ingested) = 2
  /\ Flatten(ingested) = <<Tx("Todo", "a", "create", "t1"),
                           Tx("Todo", "a", "update", "t2")>>

\* the step in which caller p's loop replays a create or update / a delete
UpsertStep(p) ==
  /\ pc[p] = "loop" /\ Current(p).action \in {"create", "update"}
  /\ loc'[p].i = loc[p].i + 1
DeleteStep(p) ==
  /\ pc[p] = "loop" /\ Current(p).action = "delete"
  /\ loc'[p].i = loc[p].i + 1

\* the rows model_data holds for record id x
RowsOf(md, x) == {r \in md : r.id = x}

\* C11 Upsert preserves created_at: when the replay of a create or update
\* finds its record id present, the stored record keeps the created_at it had
\* (the one of the ingestion that made it present), while payload,
\* entity_type and updated_at take the new values.
C11_UpsertPreservesCreatedAt ==
  [][\A p \in Callers :
       (UpsertStep(p) /\ RowsOf(model_data, Current(p).id) # {}) =>
          \A old \in RowsOf(model_data, Current(p).id) :
            RowsOf(model_data', Current(p).id) =
              {[id |-> Current(p).id, model_name |-> Current(p).model_type,
                data |-> ValueToJson(Current(p).data),
                created_at |-> old.created_at, updated_at |-> now]}]_vars

\* C12 No transition is rejected on current record state: whatever the store
\* holds, the replay of a create, update or delete can take its step; a
\* create or update leaves its id present (also when it was absent or had
\* been deleted), a delete leaves it absent and changes nothing when it was
\* absent already; and an ingest of valid actions that ends either returns
\* previous maxPosition + 1 or reports a failure of the storage layer, never
\* a rejection.
C12_NoTransitionRejected ==
  [][\A p \in Callers :
       /\ (pc[p] = "loop" /\ Current(p).action \in ValidActions) =>
             ENABLED (Upsert(p) \/ Delete(p))
       /\ UpsertStep(p) => RowsOf(model_data', Current(p).id) # {}
       /\ DeleteStep(p) =>
             /\ RowsOf(model_data', Current(p).id) = {}
             /\ RowsOf(model_data, Current(p).id) = {} => model_data' = model_data
       /\ (IngestEnds(p) /\ ~HasInvalid(Batch(p))) =>
             IF resp'.ok
             THEN resp'.sync_id = MaxPosition(pre.saved.sync_history) + 1
             ELSE resp'.err = SqliteFailure]_vars

\* a delete of an id that was never there was ingested at position 1, and an
\* update of that id, still absent, has made it present at position 2
C12_Witness ==
  /\ Committed /\ resp.op = "ingest" /\ resp.ok /\ resp.sync_id = 2
  /\ Flatten(ingested) = <<Tx("Todo", "a", "delete", "{}"),
                           Tx("Todo", "a", "update", "t2")>>
  /\ RowsOf(model_data, "a") # {}

\* the step in which a statement of the replay loop fails in the storage
\* layer, after the batch's row has been appended to sync_history
ReplayFails(p) ==
  /\ pc[p] = "loop" /\ Current(p).action \in ValidActions
  /\ pc'[p] = "idle"

PositionsIn(h, from, to) == {r.id : r \in {q \in h : q.id >= from /\ q.id <= to}}

\* C14 fetchRange horizon: for every pair of bounds (from = 0, from > to and
\* to above maxPosition among them) fetchRange yields as horizon the largest
\* position of the log entries in [from, to], and horizon 0 with no
\* transactions when no entry lies in the range; a fetch that has run
\* returned just that, and a fetch only ever fails in the storage layer.
C14_FetchRangeHorizon ==
  /\ \A from \in Froms, to \in Tos :
       LET r == GetTransactions(sync_history, from, to)
           inrange == PositionsIn(sync_history, from, to)
       IN  /\ r.sync_id = Max(inrange)
           /\ inrange = {} => r = [sync_id |-> 0, transactions |-> <<>>]
  /\ (resp.op = "fetch" /\ resp.ok) =>
       LET inrange == PositionsIn(sync_history, resp.arg.from, resp.arg.to)
       IN  /\ resp.sync_id = Max(inrange)
           /\ inrange = {} => resp.transactions = <<>>
  /\ (resp.op = "fetch" /\ ~resp.ok) => resp.err = SqliteFailure

\* a fetch from position 2 with no upper bound ran on a log of two entries
\* and returned horizon 2
C14_Witness ==
  /\ resp.op = "fetch" /\ resp.ok /\ resp.arg.from = 2 /\ resp.arg.to = DefaultTo
  /\ Len(ingested) = 2 /\ resp.sync_id = 2

\* the step in which caller p's fetchRange or bootstrap runs a statement or
\* returns, with a result or with an error
ReadStep(p) == pc[p] \in {"select", "max", "scan"} /\ pc'[p] # pc[p]

\* C15 Reads are pure: every step of a fetchRange, for any bounds, and of a
\* bootstrap, the failing ones included, leaves the log (its rows, its
\* maxPosition, the position it hands out next) and the store (every row
\* with its payload, entity type and timestamps) unchanged.
C15_ReadsArePure ==
  [][\A p \in Callers :
       ReadStep(p) =>
          /\ sync_history' = sync_history
          /\ MaxPosition(sync_history') = MaxPosition(sync_history)
          /\ NextRowid(sync_history', sqlite_sequence') =
               NextRowid(sync_history, sqlite_sequence)
          /\ model_data' = model_data]_vars

\* a fetch has returned transactions of a log of two entries, with a record
\* in the store
C15_Witness ==
  /\ resp.op = "fetch" /\ resp.ok /\ resp.transactions # <<>>
  /\ Cardinality(sync_history) = 2 /\ model_data # {}

\* caller p is inside the log/store operations of its method
InCriticalSection(p) ==
  pc[p] \in {"begin", "insert", "loop", "commit", "select", "max", "scan"}

\* the log rows of the Ok ingests
CommittedRows ==
  {[id |-> ingested[k].pos, actions |-> BatchToJson(ingested[k].batch)] :
     k \in 1..Len(ingested)}

\* C16 Mutual exclusion: at most one caller is inside the log/store
\* operations of its ingest, fetchRange or bootstrap, and it holds the lock;
\* a fetchRange or bootstrap inside its operations finds no transaction open,
\* the log holding exactly the entries of the Ok ingests and the store
\* holding exactly their replay, so nothing of a half-replayed batch or of a
\* batch that is rejected later; and what it returns is built from those.
C16_MutualExclusion ==
  /\ Cardinality({p \in Callers : InCriticalSection(p)}) <= 1
  /\ \A p \in Callers : InCriticalSection(p) => mutex = p
  /\ \A p \in Callers :
       pc[p] \in {"select", "max", "scan"} =>
          /\ ~journal.active
          /\ sync_history = CommittedRows
          /\ StoreView(model_data) = ReplayFrom({}, Flatten(ingested))
  /\ (resp.op = "fetch" /\ resp.ok) => resp.transactions = Flatten(ingested)
  /\ (resp.op = "bootstrap" /\ resp.ok) =>
       ModelsView(resp.models) = ReplayFrom({}, Flatten(ingested))

\* an ingest has appended its row and replayed its first transaction, its
\* second one is about to be rejected, and a bootstrap waits for the lock
C16_Witness ==
  \E p, q \in Callers :
    /\ pc[p] = "loop" /\ loc[p].i = 2 /\ HasInvalid(Batch(p))
    /\ model_data # pre.saved.model_data
    /\ pc[q] = "lock" /\ op[q] = "bootstrap"

\* the batch of the ingest that returned last
LastBatch == ingested[Len(ingested)].batch

\* C17 One logical instant per batch: after an Ok ingest, the records that
\* create/update transactions of the batch upserted under distinct ids all
\* have the same updated_at, also when the clock advanced during the ingest.
C17_OneInstantPerBatch ==
  (resp.op = "ingest" /\ resp.ok) =>
     \A i, j \in 1..Len(LastBatch) :
       (/\ LastBatch[i].action \in {"create", "update"}
        /\ LastBatch[j].action \in {"create", "update"}
        /\ LastBatch[i].id # LastBatch[j].id) =>
          \A r \in RowsOf(model_data, LastBatch[i].id),
             q \in RowsOf(model_data, LastBatch[j].id) :
               r.updated_at = q.updated_at

\* C17 as the code has it: each create/update of a batch stamps its record
\* with the clock reading taken at its own replay step, and leaves the
\* records of the other ids, those the batch upserted earlier among them,
\* with the timestamps they have.
C17_InstantPerTransaction ==
  [][\A p \in Callers :
       UpsertStep(p) =>
          /\ \A r \in RowsOf(model_data', Current(p).id) : r.updated_at = now
          /\ Cardinality(RowsOf(model_data', Current(p).id)) = 1
          /\ \A x \in RecordIds \ {Current(p).id} :
               RowsOf(model_data', x) = RowsOf(model_data, x)]_vars

\* one batch has upserted two ids and returned Ok, and the clock advanced
\* between its two replays: the two records differ in updated_at
C17_Witness ==
  /\ resp.op = "ingest" /\ resp.ok /\ Len(ingested) = 1
  /\ \E r \in RowsOf(model_data, "a"), q \in RowsOf(model_data, "b") :
       r.updated_at # q.updated_at

\* C18 No operation blocks indefinitely: under fair scheduling of lock
\* acquisition every invoked ingest, fetchRange or bootstrap eventually
\* returns, with a result or an error; and the lock is only ever held by a
\* caller inside its method, so every return, the early ones for an invalid
\* action and for a storage failure included, has released it.
C18_NoIndefiniteBlocking ==
  /\ [](\A p \in Callers : mutex = p => InCriticalSection(p))
  /\ \A p \in Callers : (pc[p] # "idle") ~> (pc[p] = "idle")

\* an ingest has returned early on an invalid action, and a caller that was
\* waiting for the lock meanwhile has got it
C18_Witness ==
  /\ resp.op = "ingest" /\ resp.err = InvalidAction("patch")
  /\ \E q \in Callers : InCriticalSection(q) /\ mutex = q

\* C19 Record ids are a single global key space: after every step the store
\* holds at most one row per record id and bootstrap().models lists the id
\* in at most one entity-type group; a create/update leaves its id listed
\* under the transaction's entity type only, whatever type it was under
\* before; a delete leaves its id unlisted, whatever entity type the delete
\* transaction carries.
C19_GlobalKeySpace ==
  [][/\ \A x \in RecordIds :
          /\ Cardinality(RowsOf(model_data', x)) <= 1
          /\ Cardinality(EntriesOf(GroupModels(model_data'), x)) <= 1
     /\ \A p \in Callers :
          /\ UpsertStep(p) =>
               EntriesOf(GroupModels(model_data'), Current(p).id) =
                 {<<Current(p).model_type,
                    [id |-> Current(p).id, data |-> Current(p).data]>>}
          /\ DeleteStep(p) =>
               EntriesOf(GroupModels(model_data'), Current(p).id) = {}]_vars

\* a record created as a Todo was then upserted as a Note: it is listed
\* under Note and no longer under Todo
C19_Witness ==
  /\ Committed
  /\ Flatten(ingested) = <<Tx("Todo", "a", "create", "t1"),
                           Tx("Note", "a", "update", "t1")>>
  /\ EntriesOf(Models, "a") = {<<"Note", [id |-> "a", data |-> "t1"]>>}

\* C20 Empty batch is accepted: an ingest of a batch with no transaction
\* goes from the append straight to the commit, which it can take; when it
\* ends it has either returned previous maxPosition + 1, with the log grown
\* by exactly its entry and the store unchanged, or met a failure of the
\* storage layer; fetchRange over just that position then yields it as
\* horizon with no transactions, fetchRange over the whole log yields it as
\* horizon too, and a fetch that ran on just that position returned so.
C20_EmptyBatchAccepted ==
  [][/\ \A p \in Callers :
          /\ (pc[p] = "insert" /\ Batch(p) = <<>> /\ pc'[p] \notin {"insert", "idle"}) =>
                pc'[p] = "commit"
          /\ (pc[p] = "commit" /\ Batch(p) = <<>>) => ENABLED Commit(p)
          /\ (IngestEnds(p) /\ Batch(p) = <<>>) =>
                IF resp'.ok
                THEN LET pos == MaxPosition(pre.saved.sync_history) + 1
                     IN  /\ resp'.sync_id = pos
                         /\ sync_history' = pre.saved.sync_history \cup
                              {[id |-> pos, actions |-> BatchToJson(<<>>)]}
                         /\ model_data' = pre.saved.model_data
                         /\ GetTransactions(sync_history', pos, pos) =
                              [sync_id |-> pos, transactions |-> <<>>]
                         /\ GetTransactions(sync_history', DefaultFrom, DefaultTo).sync_id
                              = pos
                ELSE resp'.err = SqliteFailure
     /\ \A k \in 1..Len(ingested') :
          (/\ ingested'[k].batch = <<>>
           /\ resp'.op = "fetch" /\ resp'.ok
           /\ resp'.arg.from = ingested'[k].pos /\ resp'.arg.to = ingested'[k].pos) =>
             (resp'.sync_id = ingested'[k].pos /\ resp'.transactions = <<>>)]_vars

\* an empty batch was ingested at position 2 after a batch with a
\* transaction, and a fetch from position 1 on has returned horizon 2 with
\* the transactions of the first batch only
C20_Witness ==
  /\ Len(ingested) = 2 /\ ingested[1].batch # <<>> /\ ingested[2].batch = <<>>
  /\ resp.op = "fetch" /\ resp.ok /\ resp.arg.from = 1 /\ resp.arg.to = DefaultTo
  /\ resp.sync_id = 2 /\ resp.transactions = ingested[1].batch

====
